---- MODULE Spec2Model ----
(***************************************************************************)
(* Model of examples/deadline/All-In-AWS-Infrastructure-Basic/python/      *)
(* package/lib/storage_tier.py: the construction of the three storage-tier *)
(* stacks (StorageTier, StorageTierDocDB, StorageTierMongoDB).             *)
(*                                                                         *)
(* One behaviour is the construction of one stack object.  The state is    *)
(* the object's attributes (file_system, database), the constructs that    *)
(* have been declared in the stack's scope so far (in declaration order),  *)
(* the constructor's local variables, and the position of the constructor  *)
(* (pc, named Class:line).  Every statement of a constructor is one        *)
(* action.  Calls into aws_cdk / aws_rfdk may raise; the source has no     *)
(* try/except, so a raised error ends the construction.                    *)
(***************************************************************************)
EXTENDS Integers, Sequences, FiniteSets, TLC

VARIABLES
    cls,               \* the class being constructed
    props,             \* the props keyword argument
    pc,                \* position of the constructor, "Class:line"
    error,             \* the error that ended the construction, or NoError
    constructs,        \* constructs declared with scope=self, in order
    file_system,       \* self.file_system
    database,          \* self.database
    instance_props,    \* local of StorageTierDocDB.__init__
    doc_db,            \* local of StorageTierDocDB.__init__
    server_cert,       \* locals of StorageTierMongoDB.__init__ ...
    client_cert,
    client_pkcs12,
    availability_zone,
    mongo_vpc_subnet,
    mongo_db,
    post_install       \* _mongo_db_post_install_setup

vars == <<cls, props, pc, error, constructs, file_system, database,
          instance_props, doc_db, server_cert, client_cert, client_pkcs12,
          availability_zone, mongo_vpc_subnet, mongo_db, post_install>>

docdb_locals == <<instance_props, doc_db>>
mongo_locals == <<server_cert, client_cert, client_pkcs12, availability_zone,
                  mongo_vpc_subnet, mongo_db, post_install>>

----------------------------------------------------------------------------
(* Bounds and the configurations a deployment may supply.                  *)

MaxZones == 2

Zones == {"us-west-2a", "us-west-2b"}
VpcIds == {"VpcA", "VpcB"}
InstanceTypes == {"r5.large", "t3.small"}
RootCaIds == {"RootCA1", "RootCA2"}
ZoneNames == {"deadline.internal", "farm.local"}
SsplAcceptances == {"USER_ACCEPTS_SSPL", "USER_REJECTS_SSPL"}

\* A name that is not bound yet (an attribute not assigned, a local not set).
Undefined == [kind |-> "undefined"]
\* Python's None.
None == [kind |-> "None"]
\* A keyword argument the call does not pass.
NotPassed == "NOT_PASSED"

NoError == [kind |-> "none"]

KeyPairNames == {None, [kind |-> "str", value |-> "farm-key"]}

ZoneLists == UNION {[1..n -> Zones] : n \in 0..MaxZones}

Vpcs == {[kind |-> "IVpc", id |-> v, availability_zones |-> z] :
            v \in VpcIds, z \in ZoneLists}

RootCas == {[kind |-> "X509CertificatePem", id |-> c] : c \in RootCaIds}

DnsZones == {[kind |-> "IPrivateHostedZone", zone_name |-> n] : n \in ZoneNames}

StorageTierProps == {[vpc |-> v] : v \in Vpcs}

StorageTierDocDBProps ==
    {[vpc |-> v, database_instance_type |-> t] : v \in Vpcs, t \in InstanceTypes}

StorageTierMongoDBProps ==
    {[vpc |-> v, database_instance_type |-> t, root_ca |-> c, dns_zone |-> d,
      accept_sspl_license |-> a, key_pair_name |-> k] :
        v \in Vpcs, t \in InstanceTypes, c \in RootCas, d \in DnsZones,
        a \in SsplAcceptances, k \in KeyPairNames}

Classes == {"StorageTier", "StorageTierDocDB", "StorageTierMongoDB"}

PropsOf(c) ==
    CASE c = "StorageTier" -> StorageTierProps
      [] c = "StorageTierDocDB" -> StorageTierDocDBProps
      [] c = "StorageTierMongoDB" -> StorageTierMongoDBProps

\* The first statement of each class's __init__.
EntryPoint(c) ==
    CASE c = "StorageTier" -> "StorageTier:77"
      [] c = "StorageTierDocDB" -> "StorageTierDocDB:118"
      [] c = "StorageTierMongoDB" -> "StorageTierMongoDB:182"

\* Where control goes when StorageTier.__init__ returns.
ReturnPoint(c) ==
    CASE c = "StorageTier" -> "done"
      [] c = "StorageTierDocDB" -> "StorageTierDocDB:119"
      [] c = "StorageTierMongoDB" -> "StorageTierMongoDB:184"

----------------------------------------------------------------------------
(* The values the constructors build.                                      *)

\* line 88
EfsRemovalPolicy_retain == "RETAIN"
EfsRemovalPolicy == "DESTROY"

\* lines 81-89
EfsFileSystem_no_vpc(p) ==
    [kind |-> "FileSystem", id |-> "EfsFileSystem", vpc |-> None,
     removal_policy |-> EfsRemovalPolicy]
EfsFileSystem(p) ==
    [kind |-> "FileSystem", id |-> "EfsFileSystem", vpc |-> p.vpc,
     removal_policy |-> EfsRemovalPolicy]

\* lines 79-90
MountableEfs(fs) == [kind |-> "MountableEfs", filesystem |-> fs]

\* lines 119-123
InstanceProps(p) ==
    [vpc |-> p.vpc,
     vpc_subnets |-> [subnet_type |-> "PRIVATE"],
     instance_type |-> p.database_instance_type]

\* line 131
DocDBInstances == 1
\* line 138
BackupRetentionDays == 15
\* line 132
MasterUsername == "adminuser"
\* line 143
DocDBRemovalPolicy == "DESTROY"

\* lines 125-144; secret is the credential the cluster generates for its
\* master user (read at line 148 as doc_db.secret)
DatabaseCluster_instance_per_zone(p, ip) ==
    [kind |-> "DatabaseCluster", id |-> "DocDBCluster",
     instance_props |-> ip,
     instances |-> Len(p.vpc.availability_zones),
     master_user |-> [username |-> MasterUsername],
     engine_version |-> "3.6.0",
     backup |-> [retention_days |-> BackupRetentionDays],
     removal_policy |-> DocDBRemovalPolicy,
     secret |-> [kind |-> "ISecret", owner |-> "DocDBCluster",
                 username |-> MasterUsername]]
DatabaseCluster(p, ip) ==
    [kind |-> "DatabaseCluster", id |-> "DocDBCluster",
     instance_props |-> ip,
     instances |-> DocDBInstances,
     master_user |-> [username |-> MasterUsername],
     engine_version |-> "3.6.0",
     backup |-> [retention_days |-> BackupRetentionDays],
     removal_policy |-> DocDBRemovalPolicy,
     secret |-> [kind |-> "ISecret", owner |-> "DocDBCluster",
                 username |-> MasterUsername]]

\* line 148
DocDBLogin_foreign_secret(db) ==
    [kind |-> "ISecret", owner |-> "SharedSecret", username |-> "adminuser"]
DocDBLogin(db) == db.secret

\* lines 146-149
ForDocDb(db) ==
    [kind |-> "DatabaseConnection", type |-> "doc_db",
     database |-> db, login |-> DocDBLogin(db)]

\* lines 184-193
ServerCert(p) ==
    [kind |-> "X509CertificatePem", id |-> "MongoCert",
     subject |-> [cn |-> "mongo." \o p.dns_zone.zone_name,
                  o |-> "RFDK-Sample", ou |-> "MongoServer"],
     signing_certificate |-> p.root_ca,
     cert |-> [kind |-> "ISecret", owner |-> "MongoCert"]]

\* line 203
ClientSigningCertificate_self_signed(p) == None
ClientSigningCertificate(p) == p.root_ca

\* lines 195-204
ClientCert(p) ==
    [kind |-> "X509CertificatePem", id |-> "DeadlineMongoCert",
     subject |-> [cn |-> "SampleUser", o |-> "RFDK-Sample", ou |-> "MongoClient"],
     signing_certificate |-> ClientSigningCertificate(p),
     cert |-> [kind |-> "ISecret", owner |-> "DeadlineMongoCert"]]

\* lines 205-209
ClientPkcs12(cc) ==
    [kind |-> "X509CertificatePkcs12", id |-> "DeadlineMongoPkcs12",
     source_certificate |-> cc]

\* line 211: availability_zones[0] of a non-empty list
FirstZone_last(zs) == zs[Len(zs)]
FirstZone(zs) == zs[1]

\* lines 213-216
MongoVpcSubnet(az) ==
    [subnet_type |-> "PRIVATE", availability_zones |-> <<az>>]

\* lines 218-232; no removal_policy keyword is passed
MongoDbInstance(p, subnet, sc) ==
    [kind |-> "MongoDbInstance", id |-> "MongoDb",
     vpc |-> p.vpc,
     vpc_subnets |-> subnet,
     key_name |-> p.key_pair_name,
     instance_type |-> p.database_instance_type,
     mongo_db |-> [user_sspl_acceptance |-> p.accept_sspl_license,
                   version |-> "COMMUNITY_3_6",
                   hostname |-> "mongo",
                   dns_zone |-> p.dns_zone,
                   server_certificate |-> sc],
     removal_policy |-> NotPassed]

\* lines 244-253: the list handed to json.dumps
Roles_swapped ==
    << [role |-> "clusterMonitor", db |-> "admin"],
       [role |-> "readWriteAnyDatabase", db |-> "admin"] >>
Roles ==
    << [role |-> "readWriteAnyDatabase", db |-> "admin"],
       [role |-> "clusterMonitor", db |-> "admin"] >>

\* json.dumps of a str (no character of the role strings needs escaping)
DumpsStr(s) == "\"" \o s \o "\""

\* json.dumps of one {'role': ..., 'db': ...} dict: keys in insertion order,
\* default separators ', ' and ': '
DumpsRole(r) ==
    "{" \o DumpsStr("role") \o ": " \o DumpsStr(r.role) \o ", "
        \o DumpsStr("db") \o ": " \o DumpsStr(r.db) \o "}"

RECURSIVE DumpsItems(_)
DumpsItems(l) ==
    IF Len(l) = 0 THEN ""
    ELSE IF Len(l) = 1 THEN DumpsRole(l[1])
    ELSE DumpsRole(l[1]) \o ", " \o DumpsItems(Tail(l))

\* json.dumps of a list of role dicts
JsonDumps(l) == "[" \o DumpsItems(l) \o "]"

\* line 243
X509UserCertificate(cc) == cc.cert

\* lines 240-256
MongoDbUsers(cc) ==
    [x509_auth_users |->
        << [certificate |-> X509UserCertificate(cc), roles |-> JsonDumps(Roles)] >>]

\* lines 234-257
MongoDbPostInstallSetup(p, subnet, db, cc) ==
    [kind |-> "MongoDbPostInstallSetup", id |-> "MongoDbPostInstall",
     vpc |-> p.vpc,
     vpc_subnets |-> subnet,
     mongo_db |-> db,
     users |-> MongoDbUsers(cc)]

\* lines 259-262
ForMongoDbInstance_as_doc_db(db, pk) ==
    [kind |-> "DatabaseConnection", type |-> "doc_db",
     database |-> db, login |-> pk]
ForMongoDbInstance(db, pk) ==
    [kind |-> "DatabaseConnection", type |-> "mongo_db_instance",
     database |-> db, client_certificate |-> pk]

----------------------------------------------------------------------------
(* Initial states: a constructor is entered with some props.               *)

Init ==
    /\ cls \in Classes
    /\ props \in PropsOf(cls)
    /\ pc = EntryPoint(cls)
    /\ error = NoError
    /\ constructs = << >>
    /\ file_system = Undefined
    /\ database = Undefined
    /\ instance_props = Undefined
    /\ doc_db = Undefined
    /\ server_cert = Undefined
    /\ client_cert = Undefined
    /\ client_pkcs12 = Undefined
    /\ availability_zone = Undefined
    /\ mongo_vpc_subnet = Undefined
    /\ mongo_db = Undefined
    /\ post_install = Undefined

----------------------------------------------------------------------------
(* StorageTier.__init__, lines 69-93.                                      *)

\* line 77: super().__init__(scope, stack_id, **kwargs)
StorageTier_super ==
    /\ pc = "StorageTier:77"
    /\ pc' = "StorageTier:79"
    /\ UNCHANGED <<cls, props, error, constructs, file_system, database,
                   docdb_locals, mongo_locals>>

\* lines 79-90: self.file_system = MountableEfs(self, filesystem=FileSystem(...))
StorageTier_file_system ==
    /\ pc = "StorageTier:79"
    /\ constructs' = Append(constructs, EfsFileSystem(props))
    /\ file_system' = MountableEfs(EfsFileSystem(props))
    /\ pc' = "StorageTier:93"
    /\ UNCHANGED <<cls, props, error, database, docdb_locals, mongo_locals>>

\* line 93: self.database = None; then __init__ returns to its caller
StorageTier_database_unassigned ==
    /\ pc = "StorageTier:93"
    /\ pc' = ReturnPoint(cls)
    /\ UNCHANGED <<cls, props, error, constructs, file_system, database,
                   docdb_locals, mongo_locals>>
StorageTier_database ==
    /\ pc = "StorageTier:93"
    /\ database' = None
    /\ pc' = ReturnPoint(cls)
    /\ UNCHANGED <<cls, props, error, constructs, file_system,
                   docdb_locals, mongo_locals>>

----------------------------------------------------------------------------
(* StorageTierDocDB.__init__, lines 110-149.                               *)

\* line 118: super().__init__(scope, stack_id, props=props, **kwargs)
StorageTierDocDB_super ==
    /\ pc = "StorageTierDocDB:118"
    /\ pc' = "StorageTier:77"
    /\ UNCHANGED <<cls, props, error, constructs, file_system, database,
                   docdb_locals, mongo_locals>>

\* lines 119-123: instance_props = InstanceProps(...)
StorageTierDocDB_instance_props ==
    /\ pc = "StorageTierDocDB:119"
    /\ instance_props' = InstanceProps(props)
    /\ pc' = "StorageTierDocDB:125"
    /\ UNCHANGED <<cls, props, error, constructs, file_system, database,
                   doc_db, mongo_locals>>

\* lines 125-144: doc_db = DatabaseCluster(self, 'DocDBCluster', ...)
StorageTierDocDB_doc_db ==
    /\ pc = "StorageTierDocDB:125"
    /\ doc_db' = DatabaseCluster(props, instance_props)
    /\ constructs' = Append(constructs, doc_db')
    /\ pc' = "StorageTierDocDB:146"
    /\ UNCHANGED <<cls, props, error, file_system, database,
                   instance_props, mongo_locals>>

\* lines 146-149: self.database = DatabaseConnection.for_doc_db(...)
StorageTierDocDB_database ==
    /\ pc = "StorageTierDocDB:146"
    /\ database' = ForDocDb(doc_db)
    /\ pc' = "done"
    /\ UNCHANGED <<cls, props, error, constructs, file_system,
                   docdb_locals, mongo_locals>>

----------------------------------------------------------------------------
(* StorageTierMongoDB.__init__, lines 174-262.                             *)

\* line 182: super().__init__(scope, stack_id, props=props, **kwargs)
StorageTierMongoDB_super ==
    /\ pc = "StorageTierMongoDB:182"
    /\ pc' = "StorageTier:77"
    /\ UNCHANGED <<cls, props, error, constructs, file_system, database,
                   docdb_locals, mongo_locals>>

\* lines 184-193: server_cert = X509CertificatePem(self, 'MongoCert', ...)
StorageTierMongoDB_server_cert ==
    /\ pc = "StorageTierMongoDB:184"
    /\ server_cert' = ServerCert(props)
    /\ constructs' = Append(constructs, server_cert')
    /\ pc' = "StorageTierMongoDB:195"
    /\ UNCHANGED <<cls, props, error, file_system, database, docdb_locals,
                   client_cert, client_pkcs12, availability_zone,
                   mongo_vpc_subnet, mongo_db, post_install>>

\* lines 195-204: client_cert = X509CertificatePem(self, 'DeadlineMongoCert', ...)
StorageTierMongoDB_client_cert ==
    /\ pc = "StorageTierMongoDB:195"
    /\ client_cert' = ClientCert(props)
    /\ constructs' = Append(constructs, client_cert')
    /\ pc' = "StorageTierMongoDB:205"
    /\ UNCHANGED <<cls, props, error, file_system, database, docdb_locals,
                   server_cert, client_pkcs12, availability_zone,
                   mongo_vpc_subnet, mongo_db, post_install>>

\* lines 205-209: client_pkcs12 = X509CertificatePkcs12(self, 'DeadlineMongoPkcs12', ...)
StorageTierMongoDB_client_pkcs12 ==
    /\ pc = "StorageTierMongoDB:205"
    /\ client_pkcs12' = ClientPkcs12(client_cert)
    /\ constructs' = Append(constructs, client_pkcs12')
    /\ pc' = "StorageTierMongoDB:211"
    /\ UNCHANGED <<cls, props, error, file_system, database, docdb_locals,
                   server_cert, client_cert, availability_zone,
                   mongo_vpc_subnet, mongo_db, post_install>>

\* line 211: availability_zone = props.vpc.availability_zones[0]
\* Indexing an empty list raises IndexError in this statement itself.
StorageTierMongoDB_availability_zone ==
    /\ pc = "StorageTierMongoDB:211"
    /\ IF Len(props.vpc.availability_zones) = 0
       THEN /\ error' = [kind |-> "IndexError", at |-> pc]
            /\ pc' = "failed"
            /\ UNCHANGED availability_zone
       ELSE /\ availability_zone' = FirstZone(props.vpc.availability_zones)
            /\ pc' = "StorageTierMongoDB:213"
            /\ UNCHANGED error
    /\ UNCHANGED <<cls, props, constructs, file_system, database, docdb_locals,
                   server_cert, client_cert, client_pkcs12,
                   mongo_vpc_subnet, mongo_db, post_install>>

\* lines 213-216: mongo_vpc_subnet = SubnetSelection(...)
StorageTierMongoDB_mongo_vpc_subnet ==
    /\ pc = "StorageTierMongoDB:213"
    /\ mongo_vpc_subnet' = MongoVpcSubnet(availability_zone)
    /\ pc' = "StorageTierMongoDB:218"
    /\ UNCHANGED <<cls, props, error, constructs, file_system, database,
                   docdb_locals, server_cert, client_cert, client_pkcs12,
                   availability_zone, mongo_db, post_install>>

\* lines 218-232: mongo_db = MongoDbInstance(self, 'MongoDb', ...)
StorageTierMongoDB_mongo_db ==
    /\ pc = "StorageTierMongoDB:218"
    /\ mongo_db' = MongoDbInstance(props, mongo_vpc_subnet, server_cert)
    /\ constructs' = Append(constructs, mongo_db')
    /\ pc' = "StorageTierMongoDB:234"
    /\ UNCHANGED <<cls, props, error, file_system, database, docdb_locals,
                   server_cert, client_cert, client_pkcs12,
                   availability_zone, mongo_vpc_subnet, post_install>>

\* lines 234-257: _mongo_db_post_install_setup = MongoDbPostInstallSetup(...)
StorageTierMongoDB_post_install ==
    /\ pc = "StorageTierMongoDB:234"
    /\ post_install' = MongoDbPostInstallSetup(props, mongo_vpc_subnet,
                                               mongo_db, client_cert)
    /\ constructs' = Append(constructs, post_install')
    /\ pc' = "StorageTierMongoDB:259"
    /\ UNCHANGED <<cls, props, error, file_system, database, docdb_locals,
                   server_cert, client_cert, client_pkcs12,
                   availability_zone, mongo_vpc_subnet, mongo_db>>

\* lines 259-262: self.database = DatabaseConnection.for_mongo_db_instance(...)
StorageTierMongoDB_database ==
    /\ pc = "StorageTierMongoDB:259"
    /\ database' = ForMongoDbInstance(mongo_db, client_pkcs12)
    /\ pc' = "done"
    /\ UNCHANGED <<cls, props, error, constructs, file_system,
                   docdb_locals, mongo_locals>>

----------------------------------------------------------------------------
(* Errors raised inside aws_cdk / aws_rfdk.                                *)

\* The statements that call into the external libraries.
LibraryCallSites ==
    {"StorageTier:77", "StorageTier:79",
     "StorageTierDocDB:119", "StorageTierDocDB:125", "StorageTierDocDB:146",
     "StorageTierMongoDB:184", "StorageTierMongoDB:195",
     "StorageTierMongoDB:205", "StorageTierMongoDB:213",
     "StorageTierMongoDB:218", "StorageTierMongoDB:234",
     "StorageTierMongoDB:259"}

\* A library call rejects its arguments.  No constructor catches anything,
\* so the error propagates and the construction ends where it was.
LibraryRaises ==
    /\ pc \in LibraryCallSites
    /\ error' = [kind |-> "LibraryError", at |-> pc]
    /\ pc' = "failed"
    /\ UNCHANGED <<cls, props, constructs, file_system, database,
                   docdb_locals, mongo_locals>>

----------------------------------------------------------------------------

Next ==
    \/ StorageTier_super
    \/ StorageTier_file_system
    \/ StorageTier_database
    \/ StorageTierDocDB_super
    \/ StorageTierDocDB_instance_props
    \/ StorageTierDocDB_doc_db
    \/ StorageTierDocDB_database
    \/ StorageTierMongoDB_super
    \/ StorageTierMongoDB_server_cert
    \/ StorageTierMongoDB_client_cert
    \/ StorageTierMongoDB_client_pkcs12
    \/ StorageTierMongoDB_availability_zone
    \/ StorageTierMongoDB_mongo_vpc_subnet
    \/ StorageTierMongoDB_mongo_db
    \/ StorageTierMongoDB_post_install
    \/ StorageTierMongoDB_database
    \/ LibraryRaises

Spec == Init /\ [][Next]_vars

----------------------------------------------------------------------------
(* Properties.                                                             *)

Populated(d) == d.kind = "DatabaseConnection"

Declared(k) == {i \in 1..Len(constructs) : constructs[i].kind = k}

DocDBKinds == {"DatabaseCluster"}
MongoKinds == {"X509CertificatePem", "X509CertificatePkcs12",
               "MongoDbInstance", "MongoDbPostInstallSetup"}
DatabaseKinds == DocDBKinds \cup MongoKinds
StatefulKinds == {"FileSystem", "DatabaseCluster", "MongoDbInstance"}

BasePcs == {"StorageTier:77", "StorageTier:79", "StorageTier:93"}

\* C1: whatever the props, the cluster wrapped by StorageTierDocDB's
\* database connection is declared with exactly one instance and a backup
\* retention of exactly 15 days.
C1_OneInstanceFifteenDays ==
    (cls = "StorageTierDocDB" /\ Populated(database)) =>
        /\ database.database.kind = "DatabaseCluster"
        /\ database.database.instances = 1
        /\ database.database.backup.retention_days = 15

C1_Witness ==
    /\ cls = "StorageTierDocDB"
    /\ pc = "done"
    /\ Populated(database)
    /\ props.database_instance_type = "t3.small"
    /\ Len(props.vpc.availability_zones) = 0

\* C2: the PKCS12 bundle held by StorageTierMongoDB's connection is derived
\* from a client certificate signed by props.root_ca, that same client
\* certificate is the one registered as the X.509 user of the post-install
\* step, and every certificate issued in the stack is signed by props.root_ca.
C2_ClientCertSignedByRootCa ==
    /\ (cls = "StorageTierMongoDB" /\ Populated(database)) =>
        /\ database.client_certificate.kind = "X509CertificatePkcs12"
        /\ database.client_certificate.source_certificate = client_cert
        /\ client_cert.signing_certificate = props.root_ca
        /\ Len(post_install.users.x509_auth_users) = 1
        /\ post_install.users.x509_auth_users[1].certificate = client_cert.cert
        /\ client_cert.cert.owner = client_cert.id
    /\ \A i \in Declared("X509CertificatePem") :
          constructs[i].signing_certificate = props.root_ca
    /\ \A i \in Declared("X509CertificatePkcs12") :
          constructs[i].source_certificate.signing_certificate = props.root_ca

C2_Witness ==
    /\ cls = "StorageTierMongoDB"
    /\ pc = "done"
    /\ Populated(database)
    /\ props.root_ca.id = "RootCA2"
    /\ database.client_certificate.source_certificate.id = "DeadlineMongoCert"

\* C3: the post-install step registers exactly one X.509 user, whose role
\* payload is the JSON list of readWriteAnyDatabase on admin followed by
\* clusterMonitor on admin, whatever the props.
C3_RolePayload ==
    post_install # Undefined =>
        /\ Len(post_install.users.x509_auth_users) = 1
        /\ post_install.users.x509_auth_users[1].roles =
             "[{\"role\": \"readWriteAnyDatabase\", \"db\": \"admin\"}, {\"role\": \"clusterMonitor\", \"db\": \"admin\"}]"

C3_Witness ==
    /\ cls = "StorageTierMongoDB"
    /\ pc = "StorageTierMongoDB:259"
    /\ post_install.kind = "MongoDbPostInstallSetup"
    /\ props.accept_sspl_license = "USER_ACCEPTS_SSPL"

\* C4: StorageTierDocDB populates the connection only through for_doc_db and
\* declares no self-managed-database construct, StorageTierMongoDB populates
\* it only through for_mongo_db_instance and declares no cluster, and the
\* base StorageTier declares neither and ends with database = None.
C4_ExactlyOnePath ==
    /\ cls = "StorageTierDocDB" =>
        /\ \A i \in 1..Len(constructs) : constructs[i].kind \notin MongoKinds
        /\ Populated(database) => database.type = "doc_db"
        /\ pc = "done" => Populated(database)
    /\ cls = "StorageTierMongoDB" =>
        /\ \A i \in 1..Len(constructs) : constructs[i].kind \notin DocDBKinds
        /\ Populated(database) => database.type = "mongo_db_instance"
        /\ pc = "done" => Populated(database)
    /\ cls = "StorageTier" =>
        /\ \A i \in 1..Len(constructs) : constructs[i].kind \notin DatabaseKinds
        /\ ~Populated(database)
        /\ pc = "done" => database = None

C4_Witness ==
    /\ cls = "StorageTierMongoDB"
    /\ pc = "done"
    /\ database.type = "mongo_db_instance"
    /\ Declared("MongoDbInstance") # {}

\* C5: the database field becomes populated only in the last statement of a
\* database variant's constructor, from the None the base constructor
\* assigned; a completed database variant has it populated; once populated
\* it never changes.
C5_PopulatedOnce ==
    [][ /\ Populated(database) => database' = database
        /\ (~Populated(database) /\ Populated(database')) =>
              /\ database = None
              /\ pc \in {"StorageTierDocDB:146", "StorageTierMongoDB:259"}
              /\ pc' = "done"
        /\ (pc' = "done" /\ cls # "StorageTier") => Populated(database')
        /\ pc = "done" => database' = database ]_vars

C5_Witness ==
    /\ cls = "StorageTierDocDB"
    /\ pc = "done"
    /\ Populated(database)
    /\ database.type = "doc_db"

\* C6 as stated: every stateful construct declared by any variant is
\* declared with removal policy DESTROY.
C6_Original ==
    \A i \in 1..Len(constructs) :
        constructs[i].kind \in StatefulKinds =>
            constructs[i].removal_policy = "DESTROY"

\* C6 amended: the file system and the DocumentDB cluster are always declared
\* with removal policy DESTROY, whatever the props; the MongoDB instance is
\* declared without a removal policy argument.
C6_Amended ==
    \A i \in 1..Len(constructs) :
        /\ constructs[i].kind \in {"FileSystem", "DatabaseCluster"} =>
              constructs[i].removal_policy = "DESTROY"
        /\ constructs[i].kind = "MongoDbInstance" =>
              constructs[i].removal_policy = NotPassed

C6_Witness ==
    /\ cls = "StorageTierMongoDB"
    /\ Declared("FileSystem") # {}
    /\ Declared("MongoDbInstance") # {}

\* C7 as stated: a construction that fails, fails with an error raised by
\* the external library, also for a network that lists no availability zone.
C7_Original ==
    pc = "failed" => error.kind = "LibraryError"

\* C8: a completed storage tier of any class holds a file-system handle that
\* wraps the file system declared in props.vpc; that file system is declared
\* before any database construct, and no statement outside the base
\* constructor changes the handle.
C8_FileSystemFirst ==
    /\ [](/\ pc = "done" =>
              /\ file_system.kind = "MountableEfs"
              /\ file_system.filesystem.kind = "FileSystem"
              /\ file_system.filesystem.vpc = props.vpc
              /\ Declared("FileSystem") = {1}
              /\ constructs[1] = file_system.filesystem
          /\ \A i \in 1..Len(constructs) :
                constructs[i].kind \in DatabaseKinds =>
                    /\ i > 1
                    /\ file_system.kind = "MountableEfs"
                    /\ constructs[1] = file_system.filesystem)
    /\ [][pc \notin BasePcs => file_system' = file_system]_vars

C8_Witness ==
    /\ cls = "StorageTierMongoDB"
    /\ pc = "done"
    /\ file_system.kind = "MountableEfs"
    /\ props.vpc.id = "VpcB"
    /\ Len(constructs) = 6

\* C9: StorageTierDocDB's connection wraps the cluster declared in the same
\* construction, and its login is that cluster's own generated secret for
\* the user adminuser.
C9_LoginIsClusterSecret ==
    (cls = "StorageTierDocDB" /\ Populated(database)) =>
        /\ database.database = doc_db
        /\ \E i \in Declared("DatabaseCluster") : constructs[i] = doc_db
        /\ Cardinality(Declared("DatabaseCluster")) = 1
        /\ database.login = doc_db.secret
        /\ database.login.owner = doc_db.id
        /\ database.login.username = "adminuser"
        /\ doc_db.master_user.username = "adminuser"

C9_Witness ==
    /\ cls = "StorageTierDocDB"
    /\ pc = "done"
    /\ database.login.kind = "ISecret"
    /\ props.vpc.id = "VpcA"

\* C10: when props.vpc lists at least one availability zone, StorageTierMongoDB
\* declares exactly one MongoDbInstance; the instance and the post-install
\* step both use private subnets restricted to the first listed zone; the
\* instance has hostname mongo in props.dns_zone and the connection wraps it.
C10_SingleZonePlacement ==
    (cls = "StorageTierMongoDB" /\ Len(props.vpc.availability_zones) >= 1) =>
        /\ Cardinality(Declared("MongoDbInstance")) <= 1
        /\ mongo_db # Undefined =>
            /\ Cardinality(Declared("MongoDbInstance")) = 1
            /\ mongo_db.vpc_subnets =
                 [subnet_type |-> "PRIVATE",
                  availability_zones |-> <<props.vpc.availability_zones[1]>>]
            /\ mongo_db.mongo_db.hostname = "mongo"
            /\ mongo_db.mongo_db.dns_zone = props.dns_zone
        /\ post_install # Undefined =>
            /\ post_install.vpc_subnets = mongo_db.vpc_subnets
            /\ post_install.mongo_db = mongo_db
        /\ pc = "done" =>
            /\ database.database = mongo_db
            /\ Cardinality(Declared("MongoDbInstance")) = 1
            /\ Cardinality(Declared("MongoDbPostInstallSetup")) = 1

C10_Witness ==
    /\ cls = "StorageTierMongoDB"
    /\ pc = "done"
    /\ Len(props.vpc.availability_zones) = 2
    /\ props.vpc.availability_zones[1] # props.vpc.availability_zones[2]
    /\ database.database.vpc_subnets.availability_zones =
          <<props.vpc.availability_zones[1]>>

====
